---- MODULE Spec2Model ----
(***************************************************************************)
(* Model of scripts/get_current_time.py: the time field builder            *)
(* (get_time_info), the tips printer (print_search_tips) and the command   *)
(* dispatcher (main).                                                      *)
(*                                                                         *)
(* Text is modelled character by character: a Python str is a TLA+ string, *)
(* which TLC treats as a sequence of one-character strings (Len, Head,     *)
(* Tail, SubSeq and \o apply).  Standard output is the string of all       *)
(* characters written so far.                                              *)
(***************************************************************************)
EXTENDS Integers, Sequences, FiniteSets, TLC

VARIABLES sys_argv, clock, ticks, pc, now, time_info, stdout, exit_status,
          clock_reads, branches

vars == <<sys_argv, clock, ticks, pc, now, time_info, stdout, exit_status,
          clock_reads, branches>>

(***************************************************************************)
(* Bounds of the model.                                                    *)
(***************************************************************************)
\* How many seconds the system clock may advance during one run.
MaxTicks == 1
\* How many command-line arguments may follow the first one.
MaxExtraArgs == 1

(***************************************************************************)
(* Characters and strings.                                                 *)
(***************************************************************************)
UPPERCASE == "ABCDEFGHIJKLMNOPQRSTUVWXYZ"
LOWERCASE == "abcdefghijklmnopqrstuvwxyz"
DIGITS == "0123456789"

CharAt(s, i) == SubSeq(s, i, i)

\* str.lower() on one character: an upper-case ASCII letter maps to the
\* lower-case letter at the same position, every other character of the
\* model's alphabet is unchanged.
LowerChar(c) ==
    IF \E i \in 1..Len(UPPERCASE) : CharAt(UPPERCASE, i) = c
    THEN CharAt(LOWERCASE, CHOOSE i \in 1..Len(UPPERCASE) : CharAt(UPPERCASE, i) = c)
    ELSE c

RECURSIVE MapLower(_)
MapLower(s) == IF s = "" THEN "" ELSE LowerChar(Head(s)) \o MapLower(Tail(s))

\* Mutant of Lower: the argument is compared as typed.
LowerIdentity(s) == s

\* sys.argv[1].lower()
Lower(s) == MapLower(s)

\* "=" * 60
RECURSIVE Repeat(_, _)
Repeat(s, n) == IF n <= 0 THEN "" ELSE s \o Repeat(s, n - 1)

\* The decimal numeral of a natural number, as f"{n}" writes it.
RECURSIVE Decimal(_)
Decimal(n) ==
    IF n < 10 THEN CharAt(DIGITS, n + 1)
    ELSE Decimal(n \div 10) \o CharAt(DIGITS, (n % 10) + 1)

\* The decimal numeral padded with zeros on the left to at least `width`.
ZeroPad(n, width) == Repeat("0", width - Len(Decimal(n))) \o Decimal(n)

(***************************************************************************)
(* The system clock: local calendar time with one-second resolution.       *)
(***************************************************************************)
IsLeap(y) == (y % 4 = 0 /\ y % 100 # 0) \/ y % 400 = 0

DaysInMonth(y, m) ==
    IF m = 2 THEN (IF IsLeap(y) THEN 29 ELSE 28)
    ELSE IF m \in {4, 6, 9, 11} THEN 30 ELSE 31

Instant(y, mo, d, h, mi, s) ==
    [year |-> y, month |-> mo, day |-> d, hour |-> h, minute |-> mi, second |-> s]

\* The instant one second after t.
NextSecond(t) ==
    IF t.second < 59 THEN [t EXCEPT !.second = t.second + 1]
    ELSE IF t.minute < 59 THEN [t EXCEPT !.second = 0, !.minute = t.minute + 1]
    ELSE IF t.hour < 23 THEN [t EXCEPT !.second = 0, !.minute = 0, !.hour = t.hour + 1]
    ELSE IF t.day < DaysInMonth(t.year, t.month)
         THEN Instant(t.year, t.month, t.day + 1, 0, 0, 0)
    ELSE IF t.month < 12 THEN Instant(t.year, t.month + 1, 1, 0, 0, 0)
    ELSE Instant(t.year + 1, 1, 1, 0, 0, 0)

\* Instants the clock may show when the process starts: the afternoon of
\* the 8th of every month of 2026 (February is the documented example), and
\* the last second of every quarter of 2009, a year whose two-digit form
\* needs a leading zero; the last second of December is followed by the
\* next year.
StartInstants ==
    { Instant(2026, m, 8, 14, 30, 0) : m \in 1..12 }
    \cup { Instant(2009, m, DaysInMonth(2009, m), 23, 59, 59) : m \in {3, 6, 9, 12} }

\* The value of `now` before datetime.now() has been called.
NotCaptured == Instant(0, 0, 0, 0, 0, 0)

(***************************************************************************)
(* datetime.strftime                                                       *)
(***************************************************************************)
MonthName(m) ==
    CASE m = 1 -> "January"  [] m = 2 -> "February" [] m = 3 -> "March"
      [] m = 4 -> "April"    [] m = 5 -> "May"      [] m = 6 -> "June"
      [] m = 7 -> "July"     [] m = 8 -> "August"   [] m = 9 -> "September"
      [] m = 10 -> "October" [] m = 11 -> "November" [] m = 12 -> "December"

\* One conversion directive of the format string.
Directive(t, d) ==
    CASE d = "Y" -> ZeroPad(t.year, 4)
      [] d = "y" -> ZeroPad(t.year % 100, 2)
      [] d = "B" -> MonthName(t.month)
      [] d = "m" -> ZeroPad(t.month, 2)
      [] d = "d" -> ZeroPad(t.day, 2)
      [] d = "H" -> ZeroPad(t.hour, 2)
      [] d = "M" -> ZeroPad(t.minute, 2)
      [] d = "S" -> ZeroPad(t.second, 2)
      [] d = "%" -> "%"
      [] OTHER -> "%" \o d

RECURSIVE strftime(_, _)
strftime(t, format) ==
    IF format = "" THEN ""
    ELSE IF Head(format) = "%" /\ Len(format) >= 2
         THEN Directive(t, CharAt(format, 2))
              \o strftime(t, SubSeq(format, 3, Len(format)))
         ELSE Head(format) \o strftime(t, Tail(format))

(***************************************************************************)
(* A dict with insertion order: a sequence of <<key, value>> pairs.        *)
(***************************************************************************)
Keys(d) == [i \in 1..Len(d) |-> d[i][1]]

HasKey(d, k) == \E i \in 1..Len(d) : d[i][1] = k

\* d[k]
Get(d, k) == d[CHOOSE i \in 1..Len(d) : d[i][1] = k][2]

(***************************************************************************)
(* get_time_info                                                           *)
(***************************************************************************)
\* Mutant of Quarter: the month is not shifted to start from zero.
QuarterOffByOne(t) == "Q" \o Decimal(t.month \div 3 + 1) \o " " \o Decimal(t.year)

\* f"Q{(now.month - 1) // 3 + 1} {now.year}"
Quarter(t) == "Q" \o Decimal((t.month - 1) \div 3 + 1) \o " " \o Decimal(t.year)

\* Mutant of TimeInfo: search_suffix is formatted with %y.
TimeInfoShortSuffix(t) ==
    << <<"year",          strftime(t, "%Y")>>,
       <<"year_short",    strftime(t, "%y")>>,
       <<"month_year",    strftime(t, "%B %Y")>>,
       <<"quarter",       Quarter(t)>>,
       <<"date_iso",      strftime(t, "%Y-%m-%d")>>,
       <<"search_suffix", strftime(t, "%y")>>,
       <<"full_datetime", strftime(t, "%Y-%m-%d %H:%M:%S")>> >>

\* The dictionary get_time_info returns for the captured instant t.
TimeInfo(t) ==
    << <<"year",          strftime(t, "%Y")>>,
       <<"year_short",    strftime(t, "%y")>>,
       <<"month_year",    strftime(t, "%B %Y")>>,
       <<"quarter",       Quarter(t)>>,
       <<"date_iso",      strftime(t, "%Y-%m-%d")>>,
       <<"search_suffix", strftime(t, "%Y")>>,
       <<"full_datetime", strftime(t, "%Y-%m-%d %H:%M:%S")>> >>

(***************************************************************************)
(* print: writes the text and a newline to standard output.                *)
(***************************************************************************)
print(out, text) == out \o text \o "\n"

\* U+2022, the bullet of the rationale list, is written "*" here: the
\* module's strings are ASCII.  No property depends on this character.
BULLET == "*"

\* __doc__, the module docstring (lines 1-11).
DOC ==
    "\nTime-aware search utility for external research.\n"
    \o "\n"
    \o "This script provides current date/time information in formats useful for\n"
    \o "constructing search queries that prioritize recent and relevant results.\n"
    \o "\n"
    \o "Usage:\n"
    \o "    python get_current_time.py           # Get all formats\n"
    \o "    python get_current_time.py --year    # Just the year\n"
    \o "    python get_current_time.py --search  # Search-friendly format\n"

(***************************************************************************)
(* print_search_tips: standard output after the tips block is written.     *)
(***************************************************************************)
print_search_tips(out, ti) ==
    LET o1  == print(out, Repeat("=", 60))
        o2  == print(o1, "TIME-AWARE SEARCH TIPS")
        o3  == print(o2, Repeat("=", 60))
        o4  == print(o3, "\nCurrent Year: " \o Get(ti, "year"))
        o5  == print(o4, "Current Quarter: " \o Get(ti, "quarter"))
        o6  == print(o5, "Current Date: " \o Get(ti, "date_iso"))
        o7  == print(o6, "")
        o8  == print(o7, "SEARCH QUERY EXAMPLES:")
        o9  == print(o8, Repeat("-", 40))
        o10 == print(o9, "  \"FastAPI JWT authentication " \o Get(ti, "year") \o "\"")
        o11 == print(o10, "  \"React useEffect best practices " \o Get(ti, "year") \o "\"")
        o12 == print(o11, "  \"Python security vulnerabilities " \o Get(ti, "year") \o "\"")
        o13 == print(o12, "  \"Next.js 14 breaking changes " \o Get(ti, "year") \o "\"")
        o14 == print(o13, "")
        o15 == print(o14, "WHY ADD THE YEAR?")
        o16 == print(o15, Repeat("-", 40))
        o17 == print(o16, "  " \o BULLET \o " Libraries and frameworks update frequently")
        o18 == print(o17, "  " \o BULLET \o " Best practices evolve over time")
        o19 == print(o18, "  " \o BULLET \o " Security recommendations change")
        o20 == print(o19, "  " \o BULLET \o " Adding the year filters out outdated content")
        o21 == print(o20, "  " \o BULLET \o " Results prioritize recent tutorials and docs")
        o22 == print(o21, "")
        o23 == print(o22, "SEARCH SUFFIXES TO TRY:")
        o24 == print(o23, Repeat("-", 40))
        o25 == print(o24, "  \"[topic] " \o Get(ti, "year") \o "\"          - General current info")
        o26 == print(o25, "  \"[topic] latest " \o Get(ti, "year") \o "\"   - Emphasize recency")
        o27 == print(o26, "  \"[topic] best practices " \o Get(ti, "year") \o "\" - Current standards")
        o28 == print(o27, "  \"[topic] changelog " \o Get(ti, "year") \o "\" - Recent changes")
    IN  print(o28, "")

(***************************************************************************)
(* json.dumps(obj, indent=2) for a dict of str to str.                     *)
(***************************************************************************)
\* One character inside a JSON string literal.
JsonEscapeChar(c) ==
    CASE c = "\"" -> "\\\""
      [] c = "\\" -> "\\\\"
      [] c = "\n" -> "\\n"
      [] OTHER -> c

RECURSIVE JsonEscape(_)
JsonEscape(s) == IF s = "" THEN "" ELSE JsonEscapeChar(Head(s)) \o JsonEscape(Tail(s))

\* Mutant of JsonString: the string is written as repr() writes it.
JsonStringSingleQuoted(s) == "'" \o JsonEscape(s) \o "'"

JsonString(s) == "\"" \o JsonEscape(s) \o "\""

\* The members from the i-th on, each on its own indented line, separated
\* by ",\n".
RECURSIVE JsonMembers(_, _, _)
JsonMembers(d, i, indent) ==
    IF i > Len(d) THEN ""
    ELSE Repeat(" ", indent) \o JsonString(d[i][1]) \o ": " \o JsonString(d[i][2])
         \o (IF i < Len(d) THEN ",\n" ELSE "")
         \o JsonMembers(d, i + 1, indent)

json_dumps(d, indent) ==
    IF Len(d) = 0 THEN "{}"
    ELSE "{\n" \o JsonMembers(d, 1, indent) \o "\n}"

(***************************************************************************)
(* main: the dispatch on the case-folded first argument.                   *)
(***************************************************************************)
\* The branch of the if/elif chain (lines 68-94) that `arg` selects.
Branch(arg) ==
    IF arg \in {"--year", "-y"} THEN "year"
    ELSE IF arg \in {"--search", "-s"} THEN "search"
    ELSE IF arg \in {"--quarter", "-q"} THEN "quarter"
    ELSE IF arg \in {"--date", "-d"} THEN "date"
    ELSE IF arg \in {"--json", "-j"} THEN "json"
    ELSE IF arg \in {"--tips", "-t"} THEN "tips"
    ELSE IF arg \in {"--help", "-h"} THEN "help"
    ELSE "unknown"

\* The option list printed by --help (lines 83-90).
PrintOptions(out) ==
    LET o1 == print(out, "\nOptions:")
        o2 == print(o1, "  --year, -y     Just the current year (e.g., 2026)")
        o3 == print(o2, "  --search, -s   Search-friendly suffix")
        o4 == print(o3, "  --quarter, -q  Current quarter (e.g., Q1 2026)")
        o5 == print(o4, "  --date, -d     ISO date (e.g., 2026-02-08)")
        o6 == print(o5, "  --json, -j     All formats as JSON")
        o7 == print(o6, "  --tips, -t     Print search tips with examples")
    IN  print(o7, "  --help, -h     Show this help message")

\* Mutant of BranchOutput: --date prints the full_datetime field.
BranchOutputDateTime(out, branch, arg, ti) ==
    CASE branch = "year"    -> print(out, Get(ti, "year"))
      [] branch = "search"  -> print(out, Get(ti, "search_suffix"))
      [] branch = "quarter" -> print(out, Get(ti, "quarter"))
      [] branch = "date"    -> print(out, Get(ti, "full_datetime"))
      [] branch = "json"    -> print(out, json_dumps(ti, 2))
      [] branch = "tips"    -> print_search_tips(out, ti)
      [] branch = "help"    -> PrintOptions(print(out, DOC))
      [] branch = "unknown" -> print(print(out, "Unknown argument: " \o arg),
                                     "Use --help for usage information")

\* What the selected branch writes to standard output.
BranchOutput(out, branch, arg, ti) ==
    CASE branch = "year"    -> print(out, Get(ti, "year"))
      [] branch = "search"  -> print(out, Get(ti, "search_suffix"))
      [] branch = "quarter" -> print(out, Get(ti, "quarter"))
      [] branch = "date"    -> print(out, Get(ti, "date_iso"))
      [] branch = "json"    -> print(out, json_dumps(ti, 2))
      [] branch = "tips"    -> print_search_tips(out, ti)
      [] branch = "help"    -> PrintOptions(print(out, DOC))
      [] branch = "unknown" -> print(print(out, "Unknown argument: " \o arg),
                                     "Use --help for usage information")

\* Mutant of BranchExit: the unknown-argument path returns normally.
BranchExitAlwaysZero(branch) == 0

\* The process exit status after the selected branch: sys.exit(1) on the
\* unknown-argument path, a normal return from main otherwise.
BranchExit(branch) == IF branch = "unknown" THEN 1 ELSE 0

(***************************************************************************)
(* Command lines the process may be started with.                          *)
(***************************************************************************)
\* sys.argv[0]
SCRIPT == "get_current_time.py"

LongFlags == {"--year", "--search", "--quarter", "--date", "--json", "--tips", "--help"}
ShortFlags == {"-y", "-s", "-q", "-d", "-j", "-t", "-h"}
Flags == LongFlags \cup ShortFlags

UpperChar(c) ==
    IF \E i \in 1..Len(LOWERCASE) : CharAt(LOWERCASE, i) = c
    THEN CharAt(UPPERCASE, CHOOSE i \in 1..Len(LOWERCASE) : CharAt(LOWERCASE, i) = c)
    ELSE c

RECURSIVE Upper(_)
Upper(s) == IF s = "" THEN "" ELSE UpperChar(Head(s)) \o Upper(Tail(s))

\* s with every second character in upper case ("--year" gives "--yEaR").
RECURSIVE Mixed(_)
Mixed(s) ==
    IF Len(s) < 2 THEN s
    ELSE Head(s) \o UpperChar(CharAt(s, 2)) \o Mixed(SubSeq(s, 3, Len(s)))

\* The lower-case, upper-case and one mixed-case spelling of a flag.
Spellings(f) == {f, Upper(f), Mixed(f)}

\* Every spelling of s that differs from it in the case of letters only.
RECURSIVE AllSpellings(_)
AllSpellings(s) ==
    IF s = "" THEN {""}
    ELSE { c \o r : c \in {Head(s), UpperChar(Head(s))}, r \in AllSpellings(Tail(s)) }

\* Tokens that are no spelling of any flag: the empty string, near misses
\* and tokens with surrounding characters.
OtherTokens == {"", "--bogus", "--Bogus", "year", "--yea", "--years", " -y", "-yy"}

FirstArgs ==
    UNION { Spellings(f) : f \in Flags } \cup AllSpellings("--year") \cup OtherTokens

\* Arguments that may follow the first one.
ExtraArgs == {"--help", "x"}

RECURSIVE SeqsUpTo(_, _)
SeqsUpTo(S, n) ==
    IF n = 0 THEN {<<>>}
    ELSE SeqsUpTo(S, n - 1)
         \cup { Append(q, x) : q \in { r \in SeqsUpTo(S, n - 1) : Len(r) = n - 1 }, x \in S }

ArgVectors ==
    {<<SCRIPT>>}
    \cup { <<SCRIPT, a>> \o rest : a \in FirstArgs, rest \in SeqsUpTo(ExtraArgs, MaxExtraArgs) }

(***************************************************************************)
(* The state machine.                                                      *)
(*   pc = "start"     main has been entered, nothing has run               *)
(*   pc = "now_read"  get_time_info has executed line 18                   *)
(*   pc = "dispatch"  get_time_info has returned (line 63 is complete)     *)
(*   pc = "done"      the process has terminated                           *)
(* exit_status is -1 while the process runs.                               *)
(***************************************************************************)
Init ==
    /\ sys_argv \in ArgVectors
    /\ clock \in StartInstants
    /\ ticks = 0
    /\ pc = "start"
    /\ now = NotCaptured
    /\ time_info = <<>>
    /\ stdout = ""
    /\ exit_status = -1
    /\ clock_reads = <<>>
    /\ branches = <<>>

\* The system clock advances by one second while the process runs.
Tick ==
    /\ pc # "done"
    /\ ticks < MaxTicks
    /\ clock' = NextSecond(clock)
    /\ ticks' = ticks + 1
    /\ UNCHANGED <<sys_argv, pc, now, time_info, stdout, exit_status, clock_reads, branches>>

\* get_time_info, line 18: now = datetime.now()
ReadClock ==
    /\ pc = "start"
    /\ now' = clock
    /\ clock_reads' = Append(clock_reads, clock)
    /\ pc' = "now_read"
    /\ UNCHANGED <<sys_argv, clock, ticks, time_info, stdout, exit_status, branches>>

\* Mutant of BuildTimeInfo: the quarter is computed from a second call of
\* datetime.now().
BuildTimeInfoRereads ==
    /\ pc = "now_read"
    /\ time_info' = [i \in 1..Len(TimeInfo(now)) |->
                        IF TimeInfo(now)[i][1] = "quarter"
                        THEN <<"quarter", Quarter(clock)>>
                        ELSE TimeInfo(now)[i]]
    /\ clock_reads' = Append(clock_reads, clock)
    /\ pc' = "dispatch"
    /\ UNCHANGED <<sys_argv, clock, ticks, now, stdout, exit_status, branches>>

\* get_time_info, lines 20-28, and the assignment of line 63.
BuildTimeInfo ==
    /\ pc = "now_read"
    /\ time_info' = TimeInfo(now)
    /\ pc' = "dispatch"
    /\ UNCHANGED <<sys_argv, clock, ticks, now, stdout, exit_status, clock_reads, branches>>

\* Mutant of Selected: without an argument main shows the help.
SelectedHelpDefault(argv) == IF Len(argv) > 1 THEN Branch(Lower(argv[2])) ELSE "help"

\* Mutant of Selected: the last argument is dispatched on (sys.argv[-1]).
SelectedLastArg(argv) == IF Len(argv) > 1 THEN Branch(Lower(argv[Len(argv)])) ELSE "tips"

\* The branch main takes for the command line: "tips" without a first
\* argument (line 96), the branch of the case-folded first argument
\* otherwise (lines 66-94).
Selected(argv) == IF Len(argv) > 1 THEN Branch(Lower(argv[2])) ELSE "tips"

\* Mutant of Arg: the message names the argument as typed.
ArgRaw(argv) == IF Len(argv) > 1 THEN argv[2] ELSE ""

\* arg, the case-folded first argument (line 66); unused without one.
Arg(argv) == IF Len(argv) > 1 THEN Lower(argv[2]) ELSE ""

\* main, lines 65-96, taking branch b.
Run(b) ==
    /\ pc = "dispatch"
    /\ Selected(sys_argv) = b
    /\ stdout' = BranchOutput(stdout, b, Arg(sys_argv), time_info)
    /\ exit_status' = BranchExit(b)
    /\ branches' = Append(branches, b)
    /\ pc' = "done"
    /\ UNCHANGED <<sys_argv, clock, ticks, now, time_info, clock_reads>>

MainYear    == Run("year")
MainSearch  == Run("search")
MainQuarter == Run("quarter")
MainDate    == Run("date")
MainJson    == Run("json")
MainTips    == Run("tips")
MainHelp    == Run("help")
MainUnknown == Run("unknown")

Next ==
    \/ Tick
    \/ ReadClock
    \/ BuildTimeInfo
    \/ MainYear
    \/ MainSearch
    \/ MainQuarter
    \/ MainDate
    \/ MainJson
    \/ MainTips
    \/ MainHelp
    \/ MainUnknown

Spec == Init /\ [][Next]_vars

TypeOK ==
    /\ pc \in {"start", "now_read", "dispatch", "done"}
    /\ exit_status \in {-1, 0, 1}
    /\ ticks \in 0..MaxTicks
    /\ sys_argv \in ArgVectors

(***************************************************************************)
(* main as a function of the command line and the captured instant: what   *)
(* a run prints and how it exits.                                          *)
(***************************************************************************)
MainOutput(argv, t) == BranchOutput("", Selected(argv), Arg(argv), TimeInfo(t))

MainExit(argv) == BranchExit(Selected(argv))

(***************************************************************************)
(* Reading standard output back: lines, prefixes, and a JSON reader for an *)
(* object of strings (json.loads with the members kept in order).          *)
(***************************************************************************)
StartsWith(s, prefix) ==
    Len(prefix) <= Len(s) /\ SubSeq(s, 1, Len(prefix)) = prefix

EndsWith(s, suffix) ==
    Len(suffix) <= Len(s) /\ SubSeq(s, Len(s) - Len(suffix) + 1, Len(s)) = suffix

\* The positions of the newlines of s.
Newlines(s) == { i \in 1..Len(s) : CharAt(s, i) = "\n" }

\* The newline-terminated lines of s, without their newline.
LineSet(s) ==
    { SubSeq(s, a + 1, b - 1) :
        <<a, b>> \in { ab \in (Newlines(s) \cup {0}) \X Newlines(s) :
                          /\ ab[1] < ab[2]
                          /\ \A i \in Newlines(s) : ~(ab[1] < i /\ i < ab[2]) } }

\* The character of s at position i, "" past the end.
At(s, i) == IF i \in 1..Len(s) THEN CharAt(s, i) ELSE ""

Whitespace == {" ", "\n", "\t", "\r"}

RECURSIVE SkipWs(_, _)
SkipWs(s, i) == IF At(s, i) \in Whitespace THEN SkipWs(s, i + 1) ELSE i

NoString == [ok |-> FALSE, val |-> "", next |-> 0]

\* The characters of a string literal from position i to its closing quote.
RECURSIVE ParseChars(_, _, _)
ParseChars(s, i, acc) ==
    LET c == At(s, i)
        e == At(s, i + 1)
    IN  IF c = "" THEN NoString
        ELSE IF c = "\"" THEN [ok |-> TRUE, val |-> acc, next |-> i + 1]
        ELSE IF c = "\\"
             THEN IF e \in {"\"", "\\", "/"} THEN ParseChars(s, i + 2, acc \o e)
                  ELSE IF e = "n" THEN ParseChars(s, i + 2, acc \o "\n")
                  ELSE IF e = "t" THEN ParseChars(s, i + 2, acc \o "\t")
                  ELSE IF e = "r" THEN ParseChars(s, i + 2, acc \o "\r")
                  ELSE NoString
        ELSE IF c \in {"\n", "\t", "\r"} THEN NoString
        ELSE ParseChars(s, i + 1, acc \o c)

ParseString(s, i) == IF At(s, i) = "\"" THEN ParseChars(s, i + 1, "") ELSE NoString

NoObject == [ok |-> FALSE, pairs |-> <<>>]

\* The members of an object from the key at position i to the closing brace,
\* after which only whitespace may follow.
RECURSIVE ParseMembers(_, _, _)
ParseMembers(s, i, acc) ==
    LET k     == ParseString(s, i)
        colon == SkipWs(s, k.next)
        v     == ParseString(s, SkipWs(s, colon + 1))
        e     == SkipWs(s, v.next)
        pairs == Append(acc, <<k.val, v.val>>)
    IN  IF ~k.ok \/ At(s, colon) # ":" THEN NoObject
        ELSE IF ~v.ok THEN NoObject
        ELSE IF At(s, e) = "," THEN ParseMembers(s, SkipWs(s, e + 1), pairs)
        ELSE IF At(s, e) = "}" /\ SkipWs(s, e + 1) > Len(s)
             THEN [ok |-> TRUE, pairs |-> pairs]
        ELSE NoObject

json_loads(s) ==
    LET open  == SkipWs(s, 1)
        first == SkipWs(s, open + 1)
    IN  IF At(s, open) # "{" THEN NoObject
        ELSE IF At(s, first) = "}" /\ SkipWs(s, first + 1) > Len(s)
             THEN [ok |-> TRUE, pairs |-> <<>>]
        ELSE ParseMembers(s, first, <<>>)

(***************************************************************************)
(* Vocabulary of the properties.                                           *)
(***************************************************************************)
\* The instant of the documented example, 2026-02-08 14:30:00.
ExampleInstant == Instant(2026, 2, 8, 14, 30, 0)

\* s is flag f up to the case of its letters.
IsSpelling(s, f) ==
    /\ Len(s) = Len(f)
    /\ \A i \in 1..Len(f) : CharAt(s, i) \in {CharAt(f, i), UpperChar(CharAt(f, i))}

\* The first argument is given and spells the long flag or its short alias.
FirstArgSpells(long, short) ==
    /\ Len(sys_argv) > 1
    /\ (IsSpelling(sys_argv[2], long) \/ IsSpelling(sys_argv[2], short))

\* The seven options: the long flag and its alias.
AliasPairs ==
    { <<"--year", "-y">>, <<"--search", "-s">>, <<"--quarter", "-q">>,
      <<"--date", "-d">>, <<"--json", "-j">>, <<"--tips", "-t">>,
      <<"--help", "-h">> }

\* The first argument is given and is no spelling of any flag.
FirstArgUnrecognized ==
    /\ Len(sys_argv) > 1
    /\ \A f \in Flags : ~IsSpelling(sys_argv[2], f)

Field(name) == Get(TimeInfo(now), name)

(***************************************************************************)
(* Properties.                                                             *)
(***************************************************************************)

\* C1: after a run whose first argument is --year/-y, --search/-s,
\* --quarter/-q or --date/-d, standard output is exactly one line holding
\* the year, search_suffix, quarter or date_iso field of the captured
\* instant; for 2026-02-08 14:30:00 the lines are 2026, 2026, Q1 2026 and
\* 2026-02-08.
C1_ScalarFlagPrintsItsField ==
    (pc = "done" /\ Len(sys_argv) > 1) =>
        /\ sys_argv[2] \in {"--year", "-y"} => stdout = Field("year") \o "\n"
        /\ sys_argv[2] \in {"--search", "-s"} => stdout = Field("search_suffix") \o "\n"
        /\ sys_argv[2] \in {"--quarter", "-q"} => stdout = Field("quarter") \o "\n"
        /\ sys_argv[2] \in {"--date", "-d"} => stdout = Field("date_iso") \o "\n"
        /\ now = ExampleInstant =>
            /\ sys_argv[2] \in {"--year", "-y"} => stdout = "2026\n"
            /\ sys_argv[2] \in {"--search", "-s"} => stdout = "2026\n"
            /\ sys_argv[2] \in {"--quarter", "-q"} => stdout = "Q1 2026\n"
            /\ sys_argv[2] \in {"--date", "-d"} => stdout = "2026-02-08\n"

C1_Witness ==
    /\ pc = "done"
    /\ sys_argv = <<SCRIPT, "--date">>
    /\ now = ExampleInstant
    /\ stdout = "2026-02-08\n"

\* C2: when the process has terminated, its exit status is 0 if and only if
\* there is no first argument or the first argument is, up to case, one of
\* the fourteen flags; otherwise, the empty string included, it is 1.
C2_ExitStatus ==
    pc = "done" =>
        /\ exit_status \in {0, 1}
        /\ exit_status = 0 <=>
              (Len(sys_argv) = 1 \/ \E f \in Flags : IsSpelling(sys_argv[2], f))
        /\ (Len(sys_argv) > 1 /\ sys_argv[2] = "") => exit_status = 1

C2_Witness ==
    /\ pc = "done"
    /\ Len(sys_argv) > 1
    /\ sys_argv[2] = ""
    /\ exit_status = 1

\* C3 as stated: on the unknown-argument path standard output is exactly
\* the line `Unknown argument: {token}` and nothing else.
C3_OnlyUnknownArgumentLine ==
    (pc = "done" /\ FirstArgUnrecognized) =>
        stdout = "Unknown argument: " \o Lower(sys_argv[2]) \o "\n"

\* C3 as amended: on the unknown-argument path standard output is exactly
\* two lines, `Unknown argument: {token}` with the token in lower case and
\* `Use --help for usage information`; for --bogus the first line is
\* `Unknown argument: --bogus`.
C3_UnknownArgumentThenHint ==
    (pc = "done" /\ FirstArgUnrecognized) =>
        /\ stdout = "Unknown argument: " \o Lower(sys_argv[2]) \o "\n"
                    \o "Use --help for usage information\n"
        /\ IsSpelling(sys_argv[2], "--bogus") =>
              stdout = "Unknown argument: --bogus\nUse --help for usage information\n"

C3_Witness ==
    /\ pc = "done"
    /\ Len(sys_argv) > 1
    /\ sys_argv[2] = "--Bogus"
    /\ exit_status = 1
    /\ LineSet(stdout) = {"Unknown argument: --bogus", "Use --help for usage information"}

\* C4: a run whose first argument spells, in any case, the long flag or the
\* short alias of an option prints what a run with the lower-case long flag
\* and what a run with the lower-case alias print for the same instant, and
\* exits with the same status.
C4_CaseAndAliasEquivalent ==
    pc = "done" =>
        \A p \in AliasPairs :
            FirstArgSpells(p[1], p[2]) =>
                /\ stdout = MainOutput(<<SCRIPT, p[1]>>, now)
                /\ stdout = MainOutput(<<SCRIPT, p[2]>>, now)
                /\ exit_status = MainExit(<<SCRIPT, p[1]>>)
                /\ exit_status = MainExit(<<SCRIPT, p[2]>>)

C4_Witness ==
    /\ pc = "done"
    /\ Len(sys_argv) > 1
    /\ sys_argv[2] = "--yEaR"
    /\ stdout = MainOutput(<<SCRIPT, "-y">>, now)
    /\ stdout = "2009\n"

\* C5: once get_time_info has returned, the quarter field is "Q{n} {Y}"
\* where n is 1 for months 1-3, 2 for 4-6, 3 for 7-9 and 4 for 10-12, which
\* is floor((m-1)/3)+1, and {Y} is the year field.
C5_Quarter ==
    pc \in {"dispatch", "done"} =>
        LET m == now.month
            n == IF m <= 3 THEN 1 ELSE IF m <= 6 THEN 2 ELSE IF m <= 9 THEN 3 ELSE 4
        IN  /\ m \in 1..12
            /\ n = (m - 1) \div 3 + 1
            /\ Get(time_info, "quarter")
                  = "Q" \o CharAt("1234", n) \o " " \o Get(time_info, "year")

C5_Witness ==
    /\ pc = "dispatch"
    /\ now.month = 10
    /\ Get(time_info, "quarter") = "Q4 2026"

\* C6: the clock is read at most once, exactly once when get_time_info has
\* returned; every field is then the field of that one reading, whatever
\* the clock shows since: date_iso begins with year, full_datetime begins
\* with date_iso, quarter and month_year end with year; and what a
\* terminated run has printed is the output for that reading.
C6_SingleCapturedInstant ==
    /\ Len(clock_reads) <= 1
    /\ pc \in {"dispatch", "done"} =>
        /\ Len(clock_reads) = 1
        /\ time_info = TimeInfo(clock_reads[1])
        /\ StartsWith(Get(time_info, "date_iso"), Get(time_info, "year"))
        /\ StartsWith(Get(time_info, "full_datetime"), Get(time_info, "date_iso"))
        /\ EndsWith(Get(time_info, "quarter"), " " \o Get(time_info, "year"))
        /\ EndsWith(Get(time_info, "month_year"), " " \o Get(time_info, "year"))
    /\ pc = "done" => stdout = MainOutput(sys_argv, clock_reads[1])

\* The clock has moved on to the next year between the reading and the end
\* of the run.
C6_Witness ==
    /\ pc = "done"
    /\ clock.year = now.year + 1
    /\ Get(time_info, "year") = "2009"
    /\ Get(time_info, "quarter") = "Q4 2009"

\* C7: once get_time_info has returned, search_suffix equals year; a run
\* with --search/-s prints what a run with --year prints for the same
\* instant, and a run with --year/-y what a run with --search prints.
C7_SearchSuffixIsYear ==
    /\ pc \in {"dispatch", "done"} =>
          Get(time_info, "search_suffix") = Get(time_info, "year")
    /\ (pc = "done" /\ FirstArgSpells("--search", "-s")) =>
          stdout = MainOutput(<<SCRIPT, "--year">>, now)
    /\ (pc = "done" /\ FirstArgSpells("--year", "-y")) =>
          stdout = MainOutput(<<SCRIPT, "--search">>, now)

C7_Witness ==
    /\ pc = "done"
    /\ Len(sys_argv) > 1
    /\ sys_argv[2] = "-s"
    /\ stdout = Get(time_info, "year") \o "\n"

\* C8: what a run with --json/-j prints parses as a JSON object whose
\* members are, in this order and with no other, year, year_short,
\* month_year, quarter, date_iso, search_suffix, full_datetime, each with
\* the string that is the field of the captured instant.
C8_JsonRoundTrip ==
    (pc = "done" /\ FirstArgSpells("--json", "-j")) =>
        LET parsed == json_loads(stdout)
        IN  /\ parsed.ok
            /\ Keys(parsed.pairs) = <<"year", "year_short", "month_year", "quarter",
                                      "date_iso", "search_suffix", "full_datetime">>
            /\ \A i \in 1..Len(parsed.pairs) :
                  parsed.pairs[i][2] = Field(parsed.pairs[i][1])
            /\ now = ExampleInstant =>
                  parsed.pairs = << <<"year", "2026">>, <<"year_short", "26">>,
                                    <<"month_year", "February 2026">>,
                                    <<"quarter", "Q1 2026">>,
                                    <<"date_iso", "2026-02-08">>,
                                    <<"search_suffix", "2026">>,
                                    <<"full_datetime", "2026-02-08 14:30:00">> >>

C8_Witness ==
    /\ pc = "done"
    /\ Len(sys_argv) > 1
    /\ sys_argv[2] = "-J"
    /\ json_loads(stdout).ok
    /\ Len(json_loads(stdout).pairs) = 7

\* C9: a run without arguments prints what a run with --tips and a run with
\* -t print for the same instant, and conversely; it exits with status 0,
\* and its output has the lines `Current Year: {year}`,
\* `Current Quarter: {quarter}` and `Current Date: {date_iso}`; for
\* 2026-02-08 14:30:00 it has the line `Current Quarter: Q1 2026`.
C9_NoArgumentIsTips ==
    /\ (pc = "done" /\ Len(sys_argv) = 1) =>
        /\ stdout = MainOutput(<<SCRIPT, "--tips">>, now)
        /\ stdout = MainOutput(<<SCRIPT, "-t">>, now)
        /\ exit_status = 0
        /\ { "Current Year: " \o Field("year"),
             "Current Quarter: " \o Field("quarter"),
             "Current Date: " \o Field("date_iso") } \subseteq LineSet(stdout)
        /\ now = ExampleInstant => "Current Quarter: Q1 2026" \in LineSet(stdout)
    /\ (pc = "done" /\ FirstArgSpells("--tips", "-t")) =>
        /\ stdout = MainOutput(<<SCRIPT>>, now)
        /\ exit_status = MainExit(<<SCRIPT>>)

C9_Witness ==
    /\ pc = "done"
    /\ sys_argv = <<SCRIPT>>
    /\ now = ExampleInstant
    /\ "Current Quarter: Q1 2026" \in LineSet(stdout)

\* C10: a terminated run has taken exactly one branch, and with a first
\* argument it has printed, and exits as, the run with that first argument
\* alone for the same instant, whatever arguments follow.
C10_OnlyFirstArgumentCounts ==
    /\ Len(branches) <= 1
    /\ pc = "done" =>
        /\ Len(branches) = 1
        /\ Len(sys_argv) > 1 =>
            /\ stdout = MainOutput(<<SCRIPT, sys_argv[2]>>, now)
            /\ exit_status = MainExit(<<SCRIPT, sys_argv[2]>>)

C10_Witness ==
    /\ pc = "done"
    /\ Len(sys_argv) > 2
    /\ sys_argv[2] = "--quarter"
    /\ sys_argv[3] = "--help"
    /\ stdout = "Q1 2026\n"

====
